---- MODULE Spec2Model ----
(***************************************************************************)
(* A model of src/src/Signal.ts: one Signal instance, its slot array, the  *)
(* add / remove / has / emit operations, the slot handles' remove() and    *)
(* the listeners that run, synchronously and possibly re-entrantly, while  *)
(* an emit call is in progress.                                            *)
(*                                                                         *)
(* JavaScript array indices are shifted by one: index k of the source is   *)
(* position k + 1 here, and the "not found" result -1 is 0.                *)
(***************************************************************************)
EXTENDS Integers, Sequences, FiniteSets, TLC

(* ---- bounds of the model ---------------------------------------------- *)

\* the number of add calls made on the signal over a whole run
MaxSlots == 3

\* how deeply emit calls nest (a listener calling emit on the same signal)
MaxDepth == 2

(* ---- the values the callers use --------------------------------------- *)

\* the listener functions, compared by reference
Callbacks == {"f", "g"}

\* `context?: Context` left out is undefined; an object is a receiver a caller passes
Undefined == "undefined"
Contexts == {Undefined, "o1"}

\* the argument lists given to emit(...args): code outside every listener
\* emits <<1>>, a listener of an emit at depth d emits <<d + 1>>, so that the
\* emit calls in progress at one time all carry different arguments
ArgLists(depth) == {<<depth + 1>>}

\* the values a listener returns
Values == {"r1", "r2"}

\* what a failing listener throws
Errors == {"e1", "e2"}

\* `aggregator || null`, and the library's pass-through aggregator
NoAggregator == "null"
Aggregators == {NoAggregator, "ARRAY"}

VARIABLES
    objs,        \* the slot objects add has created; objs[k] is the k-th, its identity is k
    slots,       \* this._slots: the identities of the registered slots, in array order
    aggregator,  \* this.aggregator
    stack,       \* the emit calls in progress, innermost last
    removed,     \* history: the slots a remove call or a handle's remove() has taken out
    last,        \* history: the latest call made by code outside every listener, or the
                 \* latest emit call to end, with its arguments, the array before it and
                 \* its result; [op |-> "none"] while listeners run
    view,        \* does a caller hold an array from the slots accessor, and is that
                 \* array the object this._slots itself
    promises,    \* the promises the listeners returned, as given to an await aggregator
    jobs,        \* the promise reaction jobs waiting to run, first in first out
    allp,        \* the promise Promise.all(items) returned, with its element values
    outp,        \* the promise the async function AWAIT_VOID returned
    hist         \* history: the promises in the order they settled and failed, and
                 \* those that had failed when the aggregator was called

signalVars == <<objs, slots, aggregator, stack, removed, last>>
awaitVars == <<promises, jobs, allp, outp, hist>>
vars == <<objs, slots, aggregator, stack, removed, last, view, promises, jobs, allp, outp, hist>>

(* ---- array and comparison primitives ---------------------------------- *)

Range(s) == {s[i] : i \in 1..Len(s)}

\* a === b, on references and on undefined
StrictEquals(a, b) == a = b

\* (ctx) => ctx.callback === callback && ctx.context === context
MatchesCallbackOnly(slot, callback, context) ==
    StrictEquals(objs[slot].callback, callback)
Matches(slot, callback, context) ==
    /\ StrictEquals(objs[slot].callback, callback)
    /\ StrictEquals(objs[slot].context, context)

\* Array.prototype.findIndex with the predicate above: the first match, 0 when none
FindLastIndex(s, callback, context) ==
    IF \E i \in 1..Len(s) : Matches(s[i], callback, context)
    THEN CHOOSE i \in 1..Len(s) :
            /\ Matches(s[i], callback, context)
            /\ \A j \in (i + 1)..Len(s) : ~Matches(s[j], callback, context)
    ELSE 0
FindIndex(s, callback, context) ==
    IF \E i \in 1..Len(s) : Matches(s[i], callback, context)
    THEN CHOOSE i \in 1..Len(s) :
            /\ Matches(s[i], callback, context)
            /\ \A j \in 1..(i - 1) : ~Matches(s[j], callback, context)
    ELSE 0

\* Array.prototype.indexOf(slot): the first position holding that very object
IndexOfByValue(s, slot) == FindIndex(s, objs[slot].callback, objs[slot].context)
IndexOf(s, slot) ==
    IF \E i \in 1..Len(s) : s[i] = slot
    THEN CHOOSE i \in 1..Len(s) : s[i] = slot /\ \A j \in 1..(i - 1) : s[j] # slot
    ELSE 0

\* Array.prototype.splice(index, 1): the array without the element at index
SpliceSwap(s, index) ==
    IF index = Len(s) THEN SubSeq(s, 1, Len(s) - 1)
    ELSE SubSeq([s EXCEPT ![index] = s[Len(s)]], 1, Len(s) - 1)
SpliceKeepLast(s, index) == [s EXCEPT ![index] = s[Len(s)]]
Splice(s, index) == SubSeq(s, 1, index - 1) \o SubSeq(s, index + 1, Len(s))

\* Array.prototype.push(slot)
Push(s, slot) == Append(s, slot)

\* Array.prototype.slice(): a new array holding the same elements
Slice(s) == [i \in 1..Len(s) |-> s[i]]

(* ---- the aggregators --------------------------------------------------- *)

\* Aggregators.ARRAY
ARRAYReversed(items) == [i \in 1..Len(items) |-> items[Len(items) + 1 - i]]
ARRAY(items) == items

\* this.aggregator(items), for the one aggregator signals are built with here
CallAggregator(agg, items) == ARRAY(items)

(* ---- who is running ---------------------------------------------------- *)

Top == stack[Len(stack)]

\* Code outside the signal runs either with no emit in progress or as the
\* listener the innermost emit is currently inside.
CallerRuns == IF stack = <<>> THEN TRUE ELSE Top.running

\* history is kept of the calls made while no emit is in progress
Record(call) == IF stack = <<>> THEN call ELSE [op |-> "none"]

\* a promise: pending, or fulfilled with a value, or rejected with a reason
Pending == [state |-> "pending", value |-> Undefined]

\* no await aggregator at work
AwaitIdle ==
    /\ promises = <<>>
    /\ jobs = <<>>
    /\ allp = [called |-> FALSE, values |-> <<>>, remaining |-> 0, promise |-> Pending]
    /\ outp = Pending
    /\ hist = [settled |-> <<>>, failed |-> <<>>, failedAtCall |-> {}]

\* new Signal(aggregator?)
NewSignal ==
    /\ objs = <<>>
    /\ slots = <<>>
    /\ stack = <<>>
    /\ removed = {}
    /\ last = [op |-> "new"]
    /\ view = [held |-> FALSE, shared |-> FALSE]

Init ==
    /\ NewSignal
    /\ aggregator \in Aggregators
    /\ AwaitIdle

(* ---- the operations ---------------------------------------------------- *)

\* add(callback, context?)
AddOnce(callback, context) ==
    /\ CallerRuns
    /\ Len(objs) < MaxSlots
    /\ LET slot == Len(objs) + 1
           index == FindIndex(slots, callback, context) IN
        /\ objs' = Append(objs, [callback |-> callback, context |-> context])
        /\ slots' = IF index >= 1 THEN slots ELSE Push(slots, slot)
        /\ last' = Record([op |-> "add", callback |-> callback, context |-> context,
                           pre |-> slots, ret |-> slot, outcome |-> "returned"])
    /\ UNCHANGED <<aggregator, stack, removed>>
    /\ UNCHANGED <<view, awaitVars>>
AddReusing(callback, context) ==
    /\ CallerRuns
    /\ Len(objs) < MaxSlots
    /\ LET old == {s \in removed : Matches(s, callback, context)}
           slot == IF old # {} THEN CHOOSE s \in old : TRUE ELSE Len(objs) + 1 IN
        /\ objs' = Append(objs, [callback |-> callback, context |-> context])
        /\ slots' = Push(slots, slot)
        /\ last' = Record([op |-> "add", callback |-> callback, context |-> context,
                           pre |-> slots, ret |-> slot, outcome |-> "returned"])
    /\ UNCHANGED <<aggregator, stack, removed>>
    /\ UNCHANGED <<view, awaitVars>>
Add(callback, context) ==
    /\ CallerRuns
    /\ Len(objs) < MaxSlots
    /\ LET slot == Len(objs) + 1 IN
        /\ objs' = Append(objs, [callback |-> callback, context |-> context])
        /\ slots' = Push(slots, slot)
        /\ last' = Record([op |-> "add", callback |-> callback, context |-> context,
                           pre |-> slots, ret |-> slot, outcome |-> "returned"])
    /\ UNCHANGED <<aggregator, stack, removed>>
    /\ UNCHANGED <<view, awaitVars>>

\* remove(callback, context?)
Remove(callback, context) ==
    /\ CallerRuns
    /\ LET index == FindIndex(slots, callback, context)
           \* the call before this one was a remove with the same arguments
           repeat == /\ last.op = "remove"
                     /\ last.callback = callback
                     /\ last.context = context
           call == [op |-> "remove", callback |-> callback, context |-> context,
                    pre |-> slots, outcome |-> "returned", repeat |-> repeat,
                    prevPre |-> IF repeat THEN last.pre ELSE <<>>]
       IN
        IF index >= 1
        THEN /\ slots' = Splice(slots, index)
             /\ removed' = removed \cup {slots[index]}
             /\ last' = Record([call EXCEPT !.op = "remove"] @@ [ret |-> TRUE])
        ELSE /\ UNCHANGED <<slots, removed>>
             /\ last' = Record([call EXCEPT !.op = "remove"] @@ [ret |-> FALSE])
    /\ UNCHANGED <<objs, aggregator, stack>>
    /\ UNCHANGED <<view, awaitVars>>

\* this._slots.findIndex(...) >= 0
HasResultOffByOne(s, callback, context) == FindIndex(s, callback, context) >= 2
HasResult(s, callback, context) == FindIndex(s, callback, context) >= 1

\* has(callback, context?)
Has(callback, context) ==
    /\ CallerRuns
    /\ last' = Record([op |-> "has", callback |-> callback, context |-> context,
                       pre |-> slots, ret |-> HasResult(slots, callback, context),
                       outcome |-> "returned"])
    /\ UNCHANGED <<objs, slots, aggregator, stack, removed>>
    /\ UNCHANGED <<view, awaitVars>>

\* the history of a handle's remove(): how many remove() calls on this handle,
\* this one included, directly follow the add that returned it (2 stands for
\* two or more), and the array before that add
HandleCall(slot) ==
    LET afterAdd == IF last.op = "add" /\ last.ret = slot THEN 1
                    ELSE IF /\ last.op = "handleRemove"
                            /\ last.slot = slot
                            /\ last.afterAdd >= 1 THEN 2
                    ELSE 0
    IN [op |-> "handleRemove", slot |-> slot, pre |-> slots, outcome |-> "returned",
        wasRemoved |-> slot \in removed,
        afterAdd |-> afterAdd,
        addPre |-> IF afterAdd = 1 THEN last.pre
                   ELSE IF afterAdd = 2 THEN last.addPre ELSE <<>>]

\* slot.remove(), that is removeSlot(slot), for a slot object add has returned
HandleRemoveUnguarded(slot) ==
    /\ CallerRuns
    /\ LET index == IndexOf(slots, slot) IN
        \* splice(-1, 1) takes the last element out
        /\ slots' = IF index >= 1 THEN Splice(slots, index)
                    ELSE SubSeq(slots, 1, Len(slots) - 1)
        /\ removed' = removed \cup {slot}
        /\ last' = Record(HandleCall(slot))
    /\ UNCHANGED <<objs, aggregator, stack>>
    /\ UNCHANGED <<view, awaitVars>>
HandleRemove(slot) ==
    /\ CallerRuns
    /\ LET index == IndexOf(slots, slot) IN
        /\ slots' = IF index >= 1 THEN Splice(slots, index) ELSE slots
        /\ removed' = removed \cup {slot}
        /\ last' = Record(HandleCall(slot))
    /\ UNCHANGED <<objs, aggregator, stack>>
    /\ UNCHANGED <<view, awaitVars>>

\* emit(...args), up to the clone of the slot array
EmitCallSharedSnapshot(args) ==
    /\ CallerRuns
    /\ Len(stack) < MaxDepth
    /\ stack' = Append([d \in 1..Len(stack) |-> [stack[d] EXCEPT !.snap = Slice(slots)]],
                       [args |-> args,
                        snap |-> Slice(slots),
                        idx |-> 0,
                        running |-> FALSE,
                        results |-> <<>>,
                        atCall |-> slots,
                        invoked |-> <<>>,
                        returned |-> <<>>,
                        thrown |-> <<>>])
    /\ last' = [op |-> "none"]
    /\ UNCHANGED <<objs, slots, aggregator, removed>>
    /\ UNCHANGED <<view, awaitVars>>
EmitCall(args) ==
    /\ CallerRuns
    /\ Len(stack) < MaxDepth
    /\ stack' = Append(stack, [args |-> args,
                               snap |-> Slice(slots),
                               idx |-> 0,
                               running |-> FALSE,
                               results |-> <<>>,
                               \* history: the array as it was at the call, the
                               \* listener calls this emit has made so far and
                               \* what each listener returned or threw
                               atCall |-> slots,
                               invoked |-> <<>>,
                               returned |-> <<>>,
                               thrown |-> <<>>])
    /\ last' = [op |-> "none"]
    /\ UNCHANGED <<objs, slots, aggregator, removed>>
    /\ UNCHANGED <<view, awaitVars>>

\* the slot the loop of forEach / map reaches next: element idx of the clone
NextSlotLive(frame, live) ==
    IF frame.idx + 1 <= Len(live) THEN live[frame.idx + 1] ELSE frame.snap[frame.idx + 1]
NextSlot(frame, live) == frame.snap[frame.idx + 1]

\* slot.callback.apply(slot.context, args): the receiver of the call
ApplyReceiverUnbound(slot) == Undefined
ApplyReceiver(slot) == objs[slot].context

\* slot.callback.apply(slot.context, args): the loop enters the next listener
EmitInvokeSkipRemoved ==
    /\ stack # <<>>
    /\ ~Top.running
    /\ Top.idx < Len(Top.snap)
    /\ LET slot == NextSlot(Top, slots) IN
        stack' = [stack EXCEPT ![Len(stack)] =
                    IF slot \in Range(slots)
                    THEN [@ EXCEPT !.running = TRUE,
                                   !.invoked = Append(@, [slot |-> slot,
                                                          callback |-> objs[slot].callback,
                                                          receiver |-> ApplyReceiver(slot),
                                                          args |-> Top.args,
                                                          registered |-> TRUE])]
                    ELSE [@ EXCEPT !.idx = @ + 1]]
    /\ last' = [op |-> "none"]
    /\ UNCHANGED <<objs, slots, aggregator, removed>>
    /\ UNCHANGED <<view, awaitVars>>
EmitInvoke ==
    /\ stack # <<>>
    /\ ~Top.running
    /\ Top.idx < Len(Top.snap)
    /\ LET slot == NextSlot(Top, slots) IN
        stack' = [stack EXCEPT ![Len(stack)] =
                    [@ EXCEPT !.running = TRUE,
                              !.invoked = Append(@, [slot |-> slot,
                                                     callback |-> objs[slot].callback,
                                                     receiver |-> ApplyReceiver(slot),
                                                     args |-> Top.args,
                                                     \* history: was the slot still in
                                                     \* this._slots when it was called
                                                     registered |-> slot \in Range(slots)])]]
    /\ last' = [op |-> "none"]
    /\ UNCHANGED <<objs, slots, aggregator, removed>>
    /\ UNCHANGED <<view, awaitVars>>

\* the listener returns value: map keeps it for the aggregator, forEach drops it
ListenerReturnPrepend(value) ==
    /\ stack # <<>>
    /\ Top.running
    /\ stack' = [stack EXCEPT ![Len(stack)] =
                    [@ EXCEPT !.running = FALSE,
                              !.idx = @ + 1,
                              !.results = IF aggregator = NoAggregator
                                          THEN @ ELSE <<value>> \o @,
                              !.returned = Append(@, value)]]
    /\ last' = [op |-> "none"]
    /\ UNCHANGED <<objs, slots, aggregator, removed>>
    /\ UNCHANGED <<view, awaitVars>>
ListenerReturn(value) ==
    /\ stack # <<>>
    /\ Top.running
    /\ stack' = [stack EXCEPT ![Len(stack)] =
                    [@ EXCEPT !.running = FALSE,
                              !.idx = @ + 1,
                              !.results = IF aggregator = NoAggregator
                                          THEN @ ELSE Append(@, value),
                              !.returned = Append(@, value)]]
    /\ last' = [op |-> "none"]
    /\ UNCHANGED <<objs, slots, aggregator, removed>>
    /\ UNCHANGED <<view, awaitVars>>

\* the listener throws: nothing in emit catches, so the emit call ends with
\* the same exception, in its caller
ListenerThrowCaught(error) ==
    /\ stack # <<>>
    /\ Top.running
    /\ stack' = [stack EXCEPT ![Len(stack)] =
                    [@ EXCEPT !.running = FALSE,
                              !.idx = @ + 1,
                              !.thrown = Append(@, error)]]
    /\ last' = [op |-> "none"]
    /\ UNCHANGED <<objs, slots, aggregator, removed>>
    /\ UNCHANGED <<view, awaitVars>>
ListenerThrow(error) ==
    /\ stack # <<>>
    /\ Top.running
    /\ stack' = SubSeq(stack, 1, Len(stack) - 1)
    /\ last' = [op |-> "emit", outcome |-> "threw", error |-> error,
                args |-> Top.args, atCall |-> Top.atCall, invoked |-> Top.invoked,
                depth |-> Len(stack), returned |-> Top.returned,
                thrown |-> Append(Top.thrown, error),
                aggregated |-> <<>>]
    /\ UNCHANGED <<objs, slots, aggregator, removed>>
    /\ UNCHANGED <<view, awaitVars>>

\* what emit returns once the loop is over
EmitResult(agg, results) ==
    IF agg = NoAggregator THEN Undefined ELSE CallAggregator(agg, results)

\* the loop is over: emit returns
EmitReturn ==
    /\ stack # <<>>
    /\ ~Top.running
    /\ Top.idx >= Len(Top.snap)
    /\ stack' = SubSeq(stack, 1, Len(stack) - 1)
    /\ last' = [op |-> "emit", outcome |-> "returned",
                ret |-> EmitResult(aggregator, Top.results),
                args |-> Top.args, atCall |-> Top.atCall, invoked |-> Top.invoked,
                depth |-> Len(stack), returned |-> Top.returned,
                thrown |-> Top.thrown,
                \* history: the argument of each aggregator call made
                aggregated |-> IF aggregator = NoAggregator THEN <<>> ELSE <<Top.results>>]
    /\ UNCHANGED <<objs, slots, aggregator, removed>>
    /\ UNCHANGED <<view, awaitVars>>

Next ==
    \/ \E callback \in Callbacks, context \in Contexts : Add(callback, context)
    \/ \E callback \in Callbacks, context \in Contexts : Remove(callback, context)
    \/ \E callback \in Callbacks, context \in Contexts : Has(callback, context)
    \/ \E slot \in 1..Len(objs) : HandleRemove(slot)
    \/ \E args \in ArgLists(Len(stack)) : EmitCall(args)
    \/ EmitInvoke
    \/ \E value \in Values : ListenerReturn(value)
    \/ \E error \in Errors : ListenerThrow(error)
    \/ EmitReturn

Spec == Init /\ [][Next]_vars

(* ---- the slots accessor -------------------------------------------------- *)

\* get slots(): `return this._slots`, the signal's own array object; the type
\* ReadonlyArray of the result exists at compile time only
SlotsAccessor == [held |-> TRUE, shared |-> TRUE]

\* const view = signal.slots
GetSlots ==
    /\ CallerRuns
    /\ view' = SlotsAccessor
    /\ last' = Record([op |-> "slots", pre |-> slots, ret |-> slots,
                       outcome |-> "returned"])
    /\ UNCHANGED <<objs, slots, aggregator, stack, removed>>
    /\ UNCHANGED awaitVars

\* what a write through an array reference leaves of the array:
\* pop() drops the last element, length = 0 all of them
Written(write, s) ==
    IF write = "pop" THEN SubSeq(s, 1, Len(s) - 1) ELSE <<>>

\* a caller that is plain JavaScript, or casts the type away, writes to the
\* array it got: (view as SignalSlot[]).pop(), or view.length = 0
ViewWrite(write) ==
    /\ CallerRuns
    /\ view.held
    /\ slots' = IF view.shared THEN Written(write, slots) ELSE slots
    /\ last' = Record([op |-> "viewWrite", write |-> write, pre |-> slots,
                       outcome |-> "returned"])
    /\ UNCHANGED <<objs, aggregator, stack, removed, view>>
    /\ UNCHANGED awaitVars

\* a signal whose callers also use the accessor, and make no emit call
NextView ==
    \/ \E callback \in Callbacks, context \in Contexts : Add(callback, context)
    \/ \E callback \in Callbacks, context \in Contexts : Remove(callback, context)
    \/ \E callback \in Callbacks, context \in Contexts : Has(callback, context)
    \/ \E slot \in 1..Len(objs) : HandleRemove(slot)
    \/ GetSlots
    \/ \E write \in {"pop", "clear"} : ViewWrite(write)

SpecView == Init /\ [][NextView]_vars

(* ---- the await aggregators ----------------------------------------------- *)
(* Aggregators.AWAIT is Promise.all(items); AWAIT_VOID is an async function  *)
(* that awaits Promise.all(items). The promises are the platform's: a        *)
(* reaction to a settled promise runs as a job, jobs run first in first out. *)

AwaitAggregators == {"AWAIT", "AWAIT_VOID"}

Fulfilled(value) == [state |-> "fulfilled", value |-> value]
Rejected(reason) == [state |-> "rejected", value |-> reason]

\* the resolving functions of a promise act on a pending promise only
RejectOverwrite(promise, reason) == Rejected(reason)
Reject(promise, reason) ==
    IF promise.state = "pending" THEN Rejected(reason) ELSE promise
Resolve(promise, value) ==
    IF promise.state = "pending" THEN Fulfilled(value) ELSE promise

\* an element of Promise.all's values that no promise has filled yet
Empty == "empty"

\* a signal built with an await aggregator has called it, or is about to, on
\* the promises its listeners returned, none of them settled at first
InitAwait ==
    /\ NewSignal
    /\ aggregator \in AwaitAggregators
    /\ \E n \in 0..MaxSlots : promises = [i \in 1..n |-> Pending]
    /\ jobs = <<>>
    /\ allp = [called |-> FALSE, values |-> <<>>, remaining |-> 0, promise |-> Pending]
    /\ outp = Pending
    /\ hist = [settled |-> <<>>, failed |-> <<>>, failedAtCall |-> {}]

\* the reaction jobs of the promises of s that are settled, in index order
SettledJobs(s) ==
    LET RECURSIVE From(_)
        From(i) == IF i > Len(s) THEN <<>>
                   ELSE IF s[i].state = "pending" THEN From(i + 1)
                   ELSE <<[kind |-> "element", index |-> i]>> \o From(i + 1)
    IN From(1)

\* `await p` in AWAIT_VOID: the function goes on in a job once p is settled
AwaitJobs(before, after) ==
    IF aggregator = "AWAIT_VOID" /\ before.state = "pending" /\ after.state # "pending"
    THEN <<[kind |-> "await", index |-> 0]>>
    ELSE <<>>

\* the aggregator is called: Promise.all(items) takes each promise in turn
\* and reacts to it with then(resolveElement, reject)
AggregatorCall ==
    /\ ~allp.called
    /\ LET n == Len(promises)
           all == IF n = 0 THEN Fulfilled(<<>>) ELSE Pending
       IN
        /\ allp' = [called |-> TRUE, values |-> [i \in 1..n |-> Empty],
                    remaining |-> n, promise |-> all]
        /\ jobs' = jobs \o SettledJobs(promises) \o AwaitJobs(Pending, all)
    /\ hist' = [hist EXCEPT
                  !.failedAtCall = {i \in 1..Len(promises) : promises[i].state = "rejected"}]
    /\ UNCHANGED <<promises, outp, view>>
    /\ UNCHANGED signalVars

\* a listener's deferred computation ends, before or after the aggregator call
SettlePromise(i, outcome) ==
    /\ promises[i].state = "pending"
    /\ promises' = [promises EXCEPT ![i] = outcome]
    /\ jobs' = IF allp.called THEN Append(jobs, [kind |-> "element", index |-> i]) ELSE jobs
    /\ hist' = [hist EXCEPT
                  !.settled = Append(@, i),
                  !.failed = IF outcome.state = "rejected" THEN Append(@, i) ELSE @]
    /\ UNCHANGED <<allp, outp, view>>
    /\ UNCHANGED signalVars

\* Promise.all's resolveElement: the value goes to its promise's index, and
\* the last value to come fulfils the result with all of them
ResolveElementPush(all, index, value) ==
    LET at == CHOOSE k \in 1..Len(all.values) :
                /\ all.values[k] = Empty
                /\ \A j \in 1..(k - 1) : all.values[j] # Empty
        values == [all.values EXCEPT ![at] = value]
    IN [all EXCEPT !.values = values,
                   !.remaining = @ - 1,
                   !.promise = IF all.remaining = 1 THEN Resolve(@, values) ELSE @]
ResolveElement(all, index, value) ==
    LET values == [all.values EXCEPT ![index] = value]
    IN [all EXCEPT !.values = values,
                   !.remaining = @ - 1,
                   !.promise = IF all.remaining = 1 THEN Resolve(@, values) ELSE @]

\* the first job of the queue runs
RunJob ==
    /\ jobs # <<>>
    /\ LET job == Head(jobs)
           source == promises[job.index]
       IN
        IF job.kind = "element"
        THEN LET all == IF source.state = "fulfilled"
                        THEN ResolveElement(allp, job.index, source.value)
                        ELSE [allp EXCEPT !.promise = Reject(@, source.value)]
             IN /\ allp' = all
                /\ jobs' = Tail(jobs) \o AwaitJobs(allp.promise, all.promise)
                /\ outp' = outp
        ELSE /\ outp' = IF allp.promise.state = "fulfilled"
                        THEN Resolve(outp, Undefined)
                        ELSE Reject(outp, allp.promise.value)
             /\ jobs' = Tail(jobs)
             /\ allp' = allp
    /\ UNCHANGED <<promises, hist, view>>
    /\ UNCHANGED signalVars

\* the promise emit returns to its caller
EmitResultPromise == IF aggregator = "AWAIT" THEN allp.promise ELSE outp

NextAwait ==
    \/ AggregatorCall
    \/ \E i \in 1..Len(promises), value \in Values : SettlePromise(i, Fulfilled(value))
    \/ \E i \in 1..Len(promises), reason \in Errors : SettlePromise(i, Rejected(reason))
    \/ RunJob

SpecAwait == InitAwait /\ [][NextAwait]_vars

(* ---- what the claims speak of ------------------------------------------ *)

\* s without its element at position i
Without(s, i) == [k \in 1..(Len(s) - 1) |-> IF k < i THEN s[k] ELSE s[k + 1]]

\* the positions of s whose slot has this very callback and this very context
Same(s, callback, context) ==
    {i \in 1..Len(s) : objs[s[i]].callback = callback /\ objs[s[i]].context = context}

Least(S) == CHOOSE i \in S : \A j \in S : i <= j

\* the slots a sequence of listener calls has entered, in order
Entered(invoked) == [k \in 1..Len(invoked) |-> invoked[k].slot]

\* the emit calls in progress, and the one that ended last
EmitEnded == last.op = "emit"
EmitDone == last.op = "emit" /\ last.outcome = "returned"

(* C1: whatever add, remove, handle remove() and emit calls were made, the
   slot array holds exactly the slots added and not removed since, each once,
   in the order of their add calls (slot k is the one the k-th add created). *)
C1_SlotsAreAddedMinusRemoved ==
    /\ Range(slots) = (1..Len(objs)) \ removed
    /\ \A i, j \in 1..Len(slots) : i < j => slots[i] < slots[j]

C1_Witness ==
    /\ EmitDone
    /\ last.atCall = <<1, 2>>
    /\ slots = <<1, 3>>

(* C2: an emit call enters exactly the slots that were in the array when it
   was called, in that order: every emit in progress has entered a prefix of
   them, a finished one all of them, whatever its listeners added or removed. *)
C2_EmitInvokesSlotsAtCall ==
    /\ \A d \in 1..Len(stack) :
        /\ Len(stack[d].invoked) = stack[d].idx + (IF stack[d].running THEN 1 ELSE 0)
        /\ Entered(stack[d].invoked) = SubSeq(stack[d].atCall, 1, Len(stack[d].invoked))
    /\ EmitEnded => Entered(last.invoked) = SubSeq(last.atCall, 1, Len(last.invoked))
    /\ EmitDone => Entered(last.invoked) = last.atCall

\* an emit has returned during which a listener took one of its slots out and
\* another slot was added
C2_Witness ==
    /\ EmitDone
    /\ \E s \in Range(last.atCall) : s \notin Range(slots)
    /\ \E s \in Range(slots) : s \notin Range(last.atCall)

(* C3, as the spec states it: a slot that a listener has removed before the
   emit reaches it is not called in that emit, that is, every slot is still
   in the array when the emit calls it. *)
C3_RemovedSlotIsNotInvoked ==
    /\ \A d \in 1..Len(stack) :
        \A k \in 1..Len(stack[d].invoked) : stack[d].invoked[k].registered
    /\ EmitEnded => \A k \in 1..Len(last.invoked) : last.invoked[k].registered

(* C3, amended: removing a slot the emit has not reached yet does not keep
   the emit from calling it: an emit that returns has called every slot of
   the array as it was at the call exactly once, the removed ones included. *)
C3_RemovedSlotIsStillInvoked ==
    EmitDone =>
        \A s \in Range(last.atCall) :
            Cardinality({k \in 1..Len(last.invoked) : last.invoked[k].slot = s}) = 1

\* an emit has returned that called a slot after a listener had removed it
C3_Witness ==
    /\ EmitDone
    /\ \E k \in 1..Len(last.invoked) : ~last.invoked[k].registered

(* C4: a remove(callback, context) call takes out at most one slot: of the
   slots with this very callback and context the earliest, the others staying
   where they were; a second call with the same arguments takes out the next. *)
C4_RemoveTakesEarliestDuplicate ==
    last.op = "remove" =>
        LET M == Same(last.pre, last.callback, last.context) IN
        /\ Len(slots) >= Len(last.pre) - 1
        /\ M # {} => slots = Without(last.pre, Least(M))
        /\ (last.repeat /\ M # {}) =>
            LET M0 == Same(last.prevPre, last.callback, last.context) IN
            /\ Cardinality(M0) >= 2
            /\ slots = Without(Without(last.prevPre, Least(M0)), Least(M0 \ {Least(M0)}) - 1)

\* two remove calls with the same arguments have each taken one of three
\* registered slots out, the slot left being a duplicate or lying between them
C4_Witness ==
    /\ last.op = "remove"
    /\ last.repeat
    /\ last.ret
    /\ Len(last.prevPre) = 3
    /\ Cardinality(Same(last.prevPre, last.callback, last.context)) >= 2
    /\ Len(slots) = 1

(* C5: remove(callback, context) returns true exactly when the array held a
   slot with this very callback and context; when it held none the call
   returns false, does not throw, and leaves the array as it was. *)
C5_RemoveReturnsFound ==
    last.op = "remove" =>
        LET M == Same(last.pre, last.callback, last.context) IN
        /\ last.ret = (M # {})
        /\ M = {} => (last.ret = FALSE /\ last.outcome = "returned" /\ slots = last.pre)

\* remove found nothing although a slot with the same callback was registered
C5_Witness ==
    /\ last.op = "remove"
    /\ last.ret = FALSE
    /\ \E s \in Range(slots) : objs[s].callback = last.callback

(* C6: in every state has(callback, context) is true exactly when the array
   holds a slot with this very callback and this very context (a left-out
   context matching the slots added without one), and a has call leaves the
   array as it was. *)
C6_HasIffRegistered ==
    /\ \A callback \in Callbacks, context \in Contexts :
        HasResult(slots, callback, context) =
            (\E s \in Range(slots) :
                objs[s].callback = callback /\ objs[s].context = context)
    /\ last.op = "has" =>
        /\ slots = last.pre
        /\ last.ret = (Same(last.pre, last.callback, last.context) # {})

\* has(callback) without a context said no while the callback was registered
\* with a context, and another has call said yes
C6_Witness ==
    /\ last.op = "has"
    /\ last.context = Undefined
    /\ last.ret = FALSE
    /\ \E s \in Range(slots) : objs[s].callback = last.callback /\ objs[s].context # Undefined
    /\ \E callback \in Callbacks : HasResult(slots, callback, Undefined)

(* C7: add directly followed by remove() on the handle it returned leaves the
   array as it was before the add, and a second remove() on that handle
   changes nothing and does not throw. *)
C7_AddThenHandleRemove ==
    (last.op = "handleRemove" /\ last.afterAdd >= 1) =>
        /\ slots = last.addPre
        /\ last.outcome = "returned"
        /\ last.afterAdd = 2 => slots = last.pre

\* add, remove(), remove() on a signal that holds a slot with the same
\* callback and context as the one added
C7_Witness ==
    /\ last.op = "handleRemove"
    /\ last.afterAdd = 2
    /\ \E s \in Range(slots) :
        /\ objs[s].callback = objs[last.slot].callback
        /\ objs[s].context = objs[last.slot].context

(* C8: once a slot has been removed, by its handle or by remove(callback,
   context), a call of its handle's remove() leaves the array as it was and
   does not throw, also when a slot with the same callback and context is
   registered. *)
C8_HandleRemoveOfRemovedSlot ==
    (last.op = "handleRemove" /\ last.wasRemoved) =>
        /\ slots = last.pre
        /\ last.outcome = "returned"

\* remove() on the handle of a removed slot while its duplicate is registered
C8_Witness ==
    /\ last.op = "handleRemove"
    /\ last.wasRemoved
    /\ last.slot \notin Range(last.pre)
    /\ \E s \in Range(slots) :
        /\ objs[s].callback = objs[last.slot].callback
        /\ objs[s].context = objs[last.slot].context

(* C9: on a signal without an aggregator, an emit call in which no listener
   throws calls every slot registered at the call once, in array order, with
   the emitted arguments and the slot's context as receiver, and returns
   undefined. *)
C9_EmitWithoutAggregator ==
    (EmitDone /\ aggregator = NoAggregator) =>
        /\ Len(last.invoked) = Len(last.atCall)
        /\ \A k \in 1..Len(last.invoked) :
            /\ last.invoked[k].slot = last.atCall[k]
            /\ last.invoked[k].callback = objs[last.atCall[k]].callback
            /\ last.invoked[k].receiver = objs[last.atCall[k]].context
            /\ last.invoked[k].args = last.args
        /\ last.ret = Undefined

\* a nested emit without aggregator has returned, having called listeners
\* with and without a context
C9_Witness ==
    /\ EmitDone
    /\ aggregator = NoAggregator
    /\ last.depth = 2
    /\ \E k \in 1..Len(last.invoked) : last.invoked[k].receiver = Undefined
    /\ \E k \in 1..Len(last.invoked) : last.invoked[k].receiver # Undefined

(* C10: on a signal built with Aggregators.ARRAY, an emit call with N slots
   registered returns a sequence of N elements, the i-th being what the i-th
   listener returned (the empty sequence for N = 0). *)
C10_ArrayAggregator ==
    (EmitDone /\ aggregator = "ARRAY") =>
        /\ Len(last.ret) = Len(last.atCall)
        /\ Len(last.returned) = Len(last.atCall)
        /\ \A i \in 1..Len(last.atCall) : last.ret[i] = last.returned[i]

\* three listeners returned, the first r1 and the second r2
C10_Witness ==
    /\ EmitDone
    /\ aggregator = "ARRAY"
    /\ Len(last.atCall) = 3
    /\ last.ret[1] = "r1"
    /\ last.ret[2] = "r2"

(* C11: when a listener throws, with or without an aggregator, the emit call
   makes no further listener call and no aggregator call and ends with that
   same exception in its caller; the listeners before the failing one were
   each called once and returned. *)
C11_ListenerFailureAbortsEmit ==
    /\ \A d \in 1..Len(stack) : stack[d].thrown = <<>>
    /\ EmitEnded =>
        /\ (last.outcome = "threw") = (last.thrown # <<>>)
        /\ last.thrown # <<>> =>
            /\ Len(last.thrown) = 1
            /\ last.error = last.thrown[1]
            /\ last.aggregated = <<>>
            /\ Len(last.invoked) >= 1
            /\ Entered(last.invoked) = SubSeq(last.atCall, 1, Len(last.invoked))
            /\ Len(last.returned) = Len(last.invoked) - 1

\* on a signal with an aggregator the second of three listeners threw e2
C11_Witness ==
    /\ EmitEnded
    /\ last.outcome = "threw"
    /\ last.error = "e2"
    /\ aggregator # NoAggregator
    /\ Len(last.atCall) = 3
    /\ Len(last.invoked) = 2

(* C12, as the spec states it: the slot array never holds two entries whose
   callbacks are the same function and whose contexts are the same value. *)
C12_NoTwoEqualEntries ==
    \A i, j \in 1..Len(slots) :
        (objs[slots[i]].callback = objs[slots[j]].callback
            /\ objs[slots[i]].context = objs[slots[j]].context) => i = j

(* C12, amended: the slot array never holds the same slot object twice (two
   entries with the same callback and the same context are two slot objects,
   each created by its own add call). *)
C12_NoSlotObjectTwice ==
    \A i, j \in 1..Len(slots) : slots[i] = slots[j] => i = j

\* three registered slots, two of them with the same callback and context
C12_Witness ==
    /\ Len(slots) = 3
    /\ \E i, j \in 1..Len(slots) :
        /\ i # j
        /\ objs[slots[i]] = objs[slots[j]]

(* C13: add always returns and appends exactly one new slot at the end of
   the array, also when a slot with the same callback and context is there;
   an emit calls a callback with a context as many times as slots with this
   pair were registered at the call. *)
C13_AddAppendsAlways ==
    /\ last.op = "add" =>
        /\ last.outcome = "returned"
        /\ last.ret \notin Range(last.pre)
        /\ slots = Append(last.pre, last.ret)
        /\ objs[last.ret] = [callback |-> last.callback, context |-> last.context]
    /\ EmitDone =>
        \A callback \in Callbacks, context \in Contexts :
            Cardinality({k \in 1..Len(last.invoked) :
                            /\ last.invoked[k].callback = callback
                            /\ last.invoked[k].receiver = context})
                = Cardinality(Same(last.atCall, callback, context))

\* the same pair was added three times and an emit has called it three times
C13_Witness ==
    /\ EmitDone
    /\ removed = {}
    /\ Len(last.atCall) = 3
    /\ Cardinality(Same(last.atCall, "f", "o1")) = 3
    /\ Len(last.invoked) = 3

(* C17: on a signal with an aggregator, an emit call in which no listener
   throws calls the aggregator once, after all the slots of its snapshot were
   called and have returned, with what they returned in the order of the
   calls. *)
C17_AggregatorCalledOnceAfterAll ==
    (EmitDone /\ aggregator # NoAggregator) =>
        /\ Len(last.aggregated) = 1
        /\ last.aggregated[1] = last.returned
        /\ Len(last.returned) = Len(last.atCall)
        /\ Len(last.invoked) = Len(last.atCall)

\* the aggregator got <<r1, r2>> from two listeners
C17_Witness ==
    /\ EmitDone
    /\ aggregator # NoAggregator
    /\ last.aggregated = << <<"r1", "r2">> >>

(* C18: a slot object that has left the array never comes back, whatever is
   called next; an add of the same callback and context creates another slot
   object. *)
C18_RemovedSlotStaysRemoved ==
    [][\A s \in 1..Len(objs) : s \notin Range(slots) => s \notin Range(slots')]_vars

\* a pair was removed and added again: the array holds the later object only
C18_Witness ==
    \E s \in removed, u \in Range(slots) :
        /\ objs[s] = objs[u]
        /\ s < u
        /\ last.op = "add"
        /\ last.ret = u

(* C19: remove() of a handle takes out the very slot object its add call
   created and no other: with several slots of the same callback and context
   registered, the handle of a later one takes that later one out and leaves
   the earlier ones. *)
C19_HandleRemovesItsOwnSlot ==
    last.op = "handleRemove" =>
        /\ Range(slots) = Range(last.pre) \ {last.slot}
        /\ \A i, j \in 1..Len(slots) : i < j => slots[i] < slots[j]
        /\ last.slot \in Range(last.pre) => Len(slots) = Len(last.pre) - 1

\* the handle of a later duplicate was used: the earlier duplicate is left
C19_Witness ==
    /\ last.op = "handleRemove"
    /\ last.slot \in Range(last.pre)
    /\ \E s \in Range(slots) : s < last.slot /\ objs[s] = objs[last.slot]

(* C20: an emit called by a listener calls exactly the slots registered when
   it was called; it leaves the snapshot and the progress of the emit around
   it alone, which goes on with the rest of its own snapshot, calling each of
   its slots once with its own arguments. *)
C20_NestedEmit ==
    /\ \A d \in 1..Len(stack) :
        /\ stack[d].snap = stack[d].atCall
        /\ stack[d].args = <<d>>
        /\ Len(stack[d].invoked) = stack[d].idx + (IF stack[d].running THEN 1 ELSE 0)
        /\ \A k \in 1..Len(stack[d].invoked) :
            /\ stack[d].invoked[k].slot = stack[d].atCall[k]
            /\ stack[d].invoked[k].args = <<d>>
        /\ d < Len(stack) => stack[d].running
    /\ EmitDone =>
        /\ Len(last.invoked) = Len(last.atCall)
        /\ \A k \in 1..Len(last.invoked) :
            /\ last.invoked[k].slot = last.atCall[k]
            /\ last.invoked[k].args = <<last.depth>>

\* an emit has just returned to the first listener of an emit of two slots;
\* it was called after that listener added a slot and removed one
C20_Witness ==
    /\ EmitDone
    /\ last.depth = 2
    /\ Len(stack) = 1
    /\ Len(stack[1].atCall) = 2
    /\ stack[1].idx = 0
    /\ \E s \in Range(last.atCall) : s \notin Range(stack[1].atCall)
    /\ \E s \in Range(stack[1].atCall) : s \notin Range(last.atCall)

(* C16: what the slots accessor returns does not let a caller change the
   signal's slot array: after anything a caller does to the returned array
   the signal holds the same slots and has answers as before. *)
C16_ViewCannotChangeSlots ==
    last.op = "viewWrite" =>
        /\ slots = last.pre
        /\ \A callback \in Callbacks, context \in Contexts :
            HasResult(slots, callback, context) = HasResult(last.pre, callback, context)

(* C14: with Aggregators.AWAIT, when all the listeners' promises are
   fulfilled, the emit result is fulfilled, not before the last of them is,
   with their values in listener order, in whatever order they were
   fulfilled. *)
C14_AwaitAllValues ==
    aggregator = "AWAIT" =>
        /\ EmitResultPromise.state = "fulfilled" =>
            /\ allp.called
            /\ \A i \in 1..Len(promises) : promises[i].state = "fulfilled"
            /\ EmitResultPromise.value = [i \in 1..Len(promises) |-> promises[i].value]
        /\ (/\ allp.called
            /\ jobs = <<>>
            /\ \A i \in 1..Len(promises) : promises[i].state = "fulfilled")
                => EmitResultPromise.state = "fulfilled"

\* three promises fulfilled in the order 3, 1, 2, the first two with
\* different values
C14_Witness ==
    /\ aggregator = "AWAIT"
    /\ EmitResultPromise.state = "fulfilled"
    /\ hist.settled = <<3, 1, 2>>
    /\ promises[1].value # promises[2].value

\* the first of the promises that failed, in the order of time
FirstToFail == hist.failed[1]

\* the failed promise Promise.all hears of first: of those that had failed at
\* the aggregator call the first in listener order; if none had, the first
\* to fail after
FirstHeard ==
    IF hist.failedAtCall # {} THEN Least(hist.failedAtCall) ELSE hist.failed[1]

(* C15, as the spec states it: with AWAIT or AWAIT_VOID, if a listener's
   promise fails, the emit result fails with the failure of the promise that
   failed first, whatever promises are still pending. *)
C15_FailsWithFirstToFail ==
    /\ EmitResultPromise.state = "rejected" =>
        /\ hist.failed # <<>>
        /\ EmitResultPromise.value = promises[FirstToFail].value
    /\ (allp.called /\ jobs = <<>> /\ hist.failed # <<>>) =>
        EmitResultPromise.state = "rejected"

(* C15, amended: with AWAIT or AWAIT_VOID, if a listener's promise fails, the
   emit result fails, whatever promises are still pending, with the failure
   of the first in listener order among the promises that had failed when
   the aggregator was called and, when none had, of the first to fail. *)
C15_FailsWithFirstHeard ==
    /\ EmitResultPromise.state = "rejected" =>
        /\ hist.failed # <<>>
        /\ EmitResultPromise.value = promises[FirstHeard].value
    /\ EmitResultPromise.state = "fulfilled" => hist.failed = <<>>
    /\ (allp.called /\ jobs = <<>> /\ hist.failed # <<>>) =>
        EmitResultPromise.state = "rejected"

\* AWAIT_VOID has failed with the reason of the second promise to fail, the
\* first in listener order, while the third promise is pending
C15_Witness ==
    /\ aggregator = "AWAIT_VOID"
    /\ EmitResultPromise.state = "rejected"
    /\ Len(promises) = 3
    /\ hist.failed = <<2, 1>>
    /\ hist.failedAtCall = {1, 2}
    /\ promises[1].value # promises[2].value
    /\ promises[3].state = "pending"

====
